---- MODULE Spec2Model ----
(***************************************************************************)
(* Agenda planning engine of the ENEM study planner:                        *)
(*   src/services/storageService.ts  isStudyDay, calculateSubtopicPriority, *)
(*                                   createReviewTasks, reorganizeAgenda    *)
(*   src/services/dateUtils.ts       date arithmetic                        *)
(*   src/unnamed/part_000            the App component and its handlers     *)
(*                                                                          *)
(* A date string 'YYYY-MM-DD' is represented by the number of days since    *)
(* Sunday 2025-11-02, so the weekday of a date d is d % 7 (0 = Sunday) and  *)
(* the lexicographic order of the strings is the order of the numbers.      *)
(* Priority scores are kept in thousandths (the factors 0.1, 0.5 and 0.01   *)
(* then stay exact on integers).  confidenceFactors are kept in tenths.     *)
(***************************************************************************)
EXTENDS Integers, Sequences, FiniteSets, TLC

\* ---------------------------------------------------------------- bounds
MaxTicks == 1
MaxCompletions == 2
\* the longest history of a stored unit
MaxHistory == 4

\* ------------------------------------------------------ program constants
ENEM_DATE_1 == 7
ENEM_DATE_2 == 14
DISCIPLINES_GROUP_1 == {"ling", "hum", "red"}
DISCIPLINES_GROUP_2 == {"mat", "nat"}
planningHorizon == 90
reviewDuration == 25
taskDuration == 45

\* the falsy value of subtopic.lastStudied (undefined / null)
NoDate == 0 - 1
\* the first day the model looks at: Thursday 2025-11-06
FirstDay == ENEM_DATE_1 - 3

\* ------------------------------------------------------------ dateUtils
addDays(dateString, days) == dateString + days

getDayOfWeek(dateString) == dateString % 7

getDaysBetween(dateStr1, dateStr2) ==
  IF dateStr2 >= dateStr1 THEN dateStr2 - dateStr1 ELSE dateStr1 - dateStr2

\* ------------------------------------------------------------- helpers
Max(a, b) == IF a >= b THEN a ELSE b

\* Math.round on a value given in tenths: floor(x + 0.5)
RoundTenths(x10) == (x10 + 5) \div 10

RECURSIVE SumDuration(_)
SumDuration(tasks) ==
  IF tasks = << >> THEN 0
  ELSE Head(tasks).duration + SumDuration(Tail(tasks))

CountWhere(tasks, P(_)) == Cardinality({k \in DOMAIN tasks : P(tasks[k])})

\* ------------------------------------------------------------ isStudyDay
\* mutant of studyDayMap: four study days are Monday to Thursday
studyDayMapInARow ==
  [n \in 1..4 |-> 1..n]

\* lines 180-185
studyDayMap ==
  [n \in 1..4 |->
     CASE n = 1 -> {1}
       [] n = 2 -> {1, 3}
       [] n = 3 -> {1, 3, 5}
       [] n = 4 -> {1, 2, 4, 5}]

isStudyDay(date, settings) ==
  LET dayOfWeek == getDayOfWeek(date)
      studyDays == settings.studyDaysPerWeek
  IN  IF studyDays >= 7 THEN TRUE
      ELSE IF studyDays = 6 THEN dayOfWeek # 0
      ELSE IF studyDays = 5 THEN dayOfWeek # 0 /\ dayOfWeek # 6
      ELSE IF studyDays \in DOMAIN studyDayMap
             THEN dayOfWeek \in studyDayMap[studyDays]
             ELSE FALSE

\* --------------------------------------------- calculateSubtopicPriority
incidenceMap == [baixa |-> 1, media |-> 5, alta |-> 10]

OrDefault(x, dflt) == IF x = 0 THEN dflt ELSE x

\* mutant of recencyFactor: the score takes no account of lastStudied
recencyFactorFlat(score, lastStudied, today) == score

\* mutant of recencyFactor: a unit left unstudied for more than 90 days gets
\* a higher bonus than a unit never studied
recencyFactorOldFirst(score, lastStudied, today) ==
  IF lastStudied # NoDate /\ getDaysBetween(lastStudied, today) > 90
    THEN score + 2000000
    ELSE recencyFactorFlat(score, lastStudied, today)
           + (IF lastStudied = NoDate THEN 1000000 ELSE 0)

\* the recency factor: a decay for the units studied in the last 7 days, a
\* bonus for the older ones, the highest bonus for the unstudied ones
recencyFactor(score, lastStudied, today) ==
  LET daysSince == getDaysBetween(lastStudied, today)
  IN  IF lastStudied # NoDate
        THEN IF daysSince <= 3 THEN score \div 10
             ELSE IF daysSince <= 7 THEN score \div 2
             ELSE IF daysSince > 90 THEN score + 100000
             ELSE IF daysSince > 30 THEN score + 50000
             ELSE score + 15000
        ELSE score + 1000000

\* the score, in thousandths
calculateSubtopicPriority(subtopic, discipline, today) ==
  LET base == ( OrDefault(discipline.weight, 1) * 20
              + OrDefault(subtopic.difficulty, 3) * 5
              + (IF subtopic.enemIncidence \in DOMAIN incidenceMap
                   THEN incidenceMap[subtopic.enemIncidence] ELSE 5)
              + (6 - OrDefault(subtopic.confidence, 3)) * 10 ) * 1000
      recency == recencyFactor(base, subtopic.lastStudied, today)
  IN  IF today < ENEM_DATE_1
        THEN IF discipline.id \in DISCIPLINES_GROUP_1
               THEN recency + 150000 ELSE recency
      ELSE IF today >= ENEM_DATE_1 /\ today < ENEM_DATE_2
        THEN IF discipline.id \in DISCIPLINES_GROUP_2 THEN recency + 500000
             ELSE IF discipline.id \in DISCIPLINES_GROUP_1
               THEN recency \div 100
             ELSE recency
      ELSE recency

\* ------------------------------------------------------------------ uuidv4
\* Math.random is a source the caller does not control: a run of the
\* scheduler draws a seed, and the n-th identifier of the run is <<seed, n>>.
uuidv4(seed, n) == <<seed, n>>

\* ----------------------------------------------------- flatten of the units
\* disciplines.flatMap(d => d.topics.flatMap(t => t.subtopics.map(st => ...)))
RECURSIVE ConcatAll(_)
ConcatAll(seqs) ==
  IF seqs = << >> THEN << >> ELSE Head(seqs) \o ConcatAll(Tail(seqs))

FlattenUnits(disciplines) ==
  ConcatAll([di \in DOMAIN disciplines |->
    ConcatAll([ti \in DOMAIN disciplines[di].topics |->
      [si \in DOMAIN disciplines[di].topics[ti].subtopics |->
         [st |-> disciplines[di].topics[ti].subtopics[si],
          topic |-> disciplines[di].topics[ti],
          discipline |-> disciplines[di]]]])])

\* ------------------------------------------------------- createReviewTasks
\* mutant of confidenceFactor: the confidence of the unit is not looked at
confidenceFactorNeutral(subtopic, settings) == 10

\* lines 253-254, in tenths
confidenceFactor(subtopic, settings) ==
  IF subtopic.confidence <= 2 THEN settings.confidenceFactors.low
  ELSE IF subtopic.confidence >= 4 THEN settings.confidenceFactors.high
  ELSE 10

\* mutant of nextInterval: the rounded product is not raised to 1
nextIntervalUnclamped(subtopic, settings) ==
  RoundTenths(settings.baseCadence[Len(subtopic.history)]
                * confidenceFactor(subtopic, settings))

\* mutant of nextInterval: the review is due on the day of the study
nextIntervalNone(subtopic, settings) == 0

\* Math.max(1, Math.round(baseInterval * confidenceFactor))
nextInterval(subtopic, settings) ==
  LET baseInterval == settings.baseCadence[Len(subtopic.history)]
  IN  Max(1, RoundTenths(baseInterval * confidenceFactor(subtopic, settings)))

\* the unit has a cadence entry left: cadenceIndex < baseCadence.length
HasCadence(subtopic, settings) ==
  /\ subtopic.lastStudied # NoDate
  /\ Len(subtopic.history) > 0
  /\ Len(subtopic.history) - 1 < Len(settings.baseCadence)

reviewDateStr(subtopic, settings) ==
  addDays(subtopic.lastStudied, nextInterval(subtopic, settings))

\* mutant of ReviewKept: a review is kept whatever its date
ReviewKeptAlways(due, today) == TRUE

\* reviewDateStr >= today
ReviewKept(due, today) == due >= today

ReviewTask(c, due, id) ==
  [id |-> id,
   subtopicId |-> c.st.id,
   topicId |-> c.topic.id,
   disciplineId |-> c.discipline.id,
   subtopicName |-> c.st.name,
   topicName |-> c.topic.name,
   disciplineName |-> c.discipline.name,
   type |-> "review",
   duration |-> reviewDuration,
   completed |-> FALSE,
   reviewDateStr |-> due]

RECURSIVE createReviewTasksFrom(_, _, _, _, _)
createReviewTasksFrom(flat, settings, today, seed, reviewTasks) ==
  IF flat = << >> THEN reviewTasks
  ELSE LET c == Head(flat)
           emits == /\ HasCadence(c.st, settings)
                    /\ ReviewKept(reviewDateStr(c.st, settings), today)
       IN  createReviewTasksFrom(Tail(flat), settings, today, seed,
             IF emits
               THEN Append(reviewTasks,
                      ReviewTask(c, reviewDateStr(c.st, settings),
                                 uuidv4(seed, Len(reviewTasks) + 1)))
               ELSE reviewTasks)

\* mutant of createReviewTasks: a unit past the end of the cadence goes on
\* with an interval of 7 days
createReviewTasksLooping(disciplines, settings, today, seed) ==
  IF ~settings.autoReview THEN << >>
  ELSE createReviewTasksFrom(
         FlattenUnits(disciplines),
         [settings EXCEPT !.baseCadence =
            [k \in 1..(Len(settings.baseCadence) + MaxHistory + 1) |->
               IF k <= Len(settings.baseCadence)
                 THEN settings.baseCadence[k] ELSE 7]],
         today, seed, << >>)

createReviewTasks(disciplines, settings, today, seed) ==
  IF ~settings.autoReview THEN << >>
  ELSE createReviewTasksFrom(FlattenUnits(disciplines), settings, today,
                             seed, << >>)

\* ------------------------------------------------------- reorganizeAgenda
\* Array.prototype.sort is stable; the comparator is b.priority - a.priority
RECURSIVE InsertByPriority(_, _)
InsertByPriority(sorted, c) ==
  IF sorted = << >> THEN <<c>>
  ELSE IF Head(sorted).priority >= c.priority
         THEN <<Head(sorted)>> \o InsertByPriority(Tail(sorted), c)
         ELSE <<c>> \o sorted

\* mutant of SortByPriority: the candidates stay in flatten order
SortByPriorityNot(cands) == cands

RECURSIVE SortByPriority(_)
SortByPriority(cands) ==
  IF cands = << >> THEN << >>
  ELSE InsertByPriority(SortByPriority(SubSeq(cands, 1, Len(cands) - 1)),
                        cands[Len(cands)])

\* mutant of IsStudyCandidate: every unit is a study candidate
IsStudyCandidateAlways(c, subtopicsWithUpcomingReviews) == TRUE

\* .filter(st => !st.lastStudied || !subtopicsWithUpcomingReviews.has(st.id))
IsStudyCandidate(c, subtopicsWithUpcomingReviews) ==
  c.st.lastStudied = NoDate \/ c.st.id \notin subtopicsWithUpcomingReviews

\* mutant of ExcludingReviews: only the reviews that found a place in the
\* plan map take their unit out of the study candidates
ExcludingPlacedReviews(reviewTasks, plans) ==
  LET Placed(r) == \E d \in DOMAIN plans : \E k \in DOMAIN plans[d].tasks :
                     plans[d].tasks[k] = r
  IN  SelectSeq(reviewTasks, Placed)

\* the reviews whose units are taken out of the study candidates (line 297:
\* new Set(reviewTasks.map(t => t.subtopicId))): all the generated ones
ExcludingReviews(reviewTasks, plans) == reviewTasks

studyCandidates(disciplines, today, reviewTasks) ==
  LET subtopicsWithUpcomingReviews ==
        {reviewTasks[k].subtopicId : k \in DOMAIN reviewTasks}
      KeepIt(c) == IsStudyCandidate(c, subtopicsWithUpcomingReviews)
      kept == SelectSeq(FlattenUnits(disciplines), KeepIt)
  IN  SortByPriority(
        [k \in DOMAIN kept |->
           [st |-> kept[k].st, topic |-> kept[k].topic,
            discipline |-> kept[k].discipline,
            priority |-> calculateSubtopicPriority(kept[k].st,
                           kept[k].discipline, today)]])

\* mutant of EmptyPlans: the loop stops one day short of the horizon
EmptyPlansShort(today, settings) ==
  [dateStr \in today..(today + planningHorizon - 2) |->
     [date |-> dateStr, tasks |-> << >>,
      isRestDay |-> ~isStudyDay(dateStr, settings)]]

\* lines 308-315
EmptyPlans(today, settings) ==
  [dateStr \in today..(today + planningHorizon - 1) |->
     [date |-> dateStr, tasks |-> << >>,
      isRestDay |-> ~isStudyDay(dateStr, settings)]]

IsReview(t) == t.type = "review"

\* mutant of ReviewFits: the count of the day's reviews is not looked at
ReviewFitsIgnoringCount(dayPlan, task, settings) ==
  SumDuration(dayPlan.tasks) + task.duration <= settings.dailyStudyMinutes

\* the test of line 323
ReviewFits(dayPlan, task, settings) ==
  /\ SumDuration(dayPlan.tasks) + task.duration <= settings.dailyStudyMinutes
  /\ CountWhere(dayPlan.tasks, IsReview) < settings.maxReviewsPerDay

\* mutant of PlaceReview: a review that does not go on its due date goes on
\* the day after
PlaceReviewDeferred(plans, task, settings) ==
  IF /\ task.reviewDateStr \in DOMAIN plans
     /\ ~plans[task.reviewDateStr].isRestDay
     /\ ReviewFits(plans[task.reviewDateStr], task, settings)
    THEN [plans EXCEPT ![task.reviewDateStr].tasks = Append(@, task)]
    ELSE IF task.reviewDateStr + 1 \in DOMAIN plans
      THEN [plans EXCEPT ![task.reviewDateStr + 1].tasks = Append(@, task)]
      ELSE plans

\* mutant of PlaceReview: the rest-day flag of the due date is not looked at
PlaceReviewOnAnyDay(plans, task, settings) ==
  IF /\ task.reviewDateStr \in DOMAIN plans
     /\ SumDuration(plans[task.reviewDateStr].tasks) + task.duration
          <= settings.dailyStudyMinutes
     /\ CountWhere(plans[task.reviewDateStr].tasks, IsReview)
          < settings.maxReviewsPerDay
    THEN [plans EXCEPT ![task.reviewDateStr].tasks = Append(@, task)]
    ELSE plans

PlaceReview(plans, task, settings) ==
  IF /\ task.reviewDateStr \in DOMAIN plans
     /\ ~plans[task.reviewDateStr].isRestDay
     /\ ReviewFits(plans[task.reviewDateStr], task, settings)
    THEN [plans EXCEPT ![task.reviewDateStr].tasks = Append(@, task)]
    ELSE plans

RECURSIVE PlaceReviews(_, _, _)
PlaceReviews(plans, reviewTasks, settings) ==
  IF reviewTasks = << >> THEN plans
  ELSE PlaceReviews(PlaceReview(plans, Head(reviewTasks), settings),
                    Tail(reviewTasks), settings)

\* mutant of StudyTask: the task is born completed
StudyTaskDone(c, id) ==
  [id |-> id,
   subtopicId |-> c.st.id,
   topicId |-> c.topic.id,
   disciplineId |-> c.discipline.id,
   subtopicName |-> c.st.name,
   topicName |-> c.topic.name,
   disciplineName |-> c.discipline.name,
   type |-> "study",
   duration |-> taskDuration,
   completed |-> TRUE]

StudyTask(c, id) ==
  [id |-> id,
   subtopicId |-> c.st.id,
   topicId |-> c.topic.id,
   disciplineId |-> c.discipline.id,
   subtopicName |-> c.st.name,
   topicName |-> c.topic.name,
   disciplineName |-> c.discipline.name,
   type |-> "study",
   duration |-> taskDuration,
   completed |-> FALSE]

\* disciplineCountToday[id] || 0
CountOf(disciplineCountToday, id) ==
  IF id \in DOMAIN disciplineCountToday THEN disciplineCountToday[id] ELSE 0

Increment(disciplineCountToday, id) ==
  [x \in DOMAIN disciplineCountToday \cup {id} |->
     IF x = id THEN CountOf(disciplineCountToday, id) + 1
     ELSE disciplineCountToday[x]]

\* dayPlan.tasks.reduce((acc, t) => { acc[t.disciplineId] = ... }, {})
RECURSIVE CountDisciplines(_, _)
CountDisciplines(tasks, acc) ==
  IF tasks = << >> THEN acc
  ELSE CountDisciplines(Tail(tasks), Increment(acc, Head(tasks).disciplineId))

\* mutant of StudyFits: the minutes left in the day are not looked at
StudyFitsIgnoringMinutes(timeSpentToday, disciplineCountToday, c, settings) ==
  CountOf(disciplineCountToday, c.discipline.id)
    < settings.maxTasksPerDisciplinePerDay

\* the test of lines 345-348
StudyFits(timeSpentToday, disciplineCountToday, c, settings) ==
  /\ timeSpentToday + taskDuration <= settings.dailyStudyMinutes
  /\ CountOf(disciplineCountToday, c.discipline.id)
       < settings.maxTasksPerDisciplinePerDay

\* mutant of RemoveAt: the placed candidate stays in the pool
KeepAt(seq, k) == seq

\* studyCandidates.splice(k, 1)
RemoveAt(seq, k) == SubSeq(seq, 1, k - 1) \o SubSeq(seq, k + 1, Len(seq))

\* mutant of ArgumentsAfterSplice: the pool is the array of the unit's own
\* topic, so the splice takes the unit out of the disciplines
ArgumentsSpliced(args, c) ==
  LET Other(st) == st.id # c.st.id
      Topics(d) ==
        [ti \in DOMAIN d.topics |->
           IF d.id = c.discipline.id /\ d.topics[ti].id = c.topic.id
             THEN [d.topics[ti] EXCEPT !.subtopics = SelectSeq(@, Other)]
             ELSE d.topics[ti]]
  IN  [args EXCEPT !.disciplines =
         [di \in DOMAIN args.disciplines |->
            [args.disciplines[di] EXCEPT
               !.topics = Topics(args.disciplines[di])]]]

\* what the splice of line 365 does to the arguments of the call.  The pool
\* studyCandidates is the array that flatMap, filter and map built (lines
\* 299-305) out of copies { ...st, topic, discipline }: the arrays and
\* objects of disciplines and settings are not written
ArgumentsAfterSplice(args, c) == args

\* mutant of IndexAfterPlacement: the index is advanced after a placement too
IndexSkippingNext(potentialSubtopicIndex) == potentialSubtopicIndex + 1

\* where the scan goes on after a placement: splice(potentialSubtopicIndex, 1)
\* leaves the index where it is
IndexAfterPlacement(potentialSubtopicIndex) == potentialSubtopicIndex

\* the while loop of one day; potentialSubtopicIndex is 1-based here.
\* f = [tasks, cands, ids, args]: the day's task list, the candidate pool,
\* the number of identifiers drawn so far, and the arguments of the call
\* (disciplines and settings) as they are in memory
RECURSIVE FillDay(_, _, _, _, _, _)
FillDay(f, timeSpentToday, disciplineCountToday, potentialSubtopicIndex, settings, seed) ==
  IF ~(/\ timeSpentToday < settings.dailyStudyMinutes
       /\ potentialSubtopicIndex <= Len(f.cands))
    THEN f
  ELSE LET subtopic == f.cands[potentialSubtopicIndex]
       IN  IF StudyFits(timeSpentToday, disciplineCountToday, subtopic,
                        settings)
             THEN FillDay(
                    [tasks |-> Append(f.tasks,
                                 StudyTask(subtopic, uuidv4(seed, f.ids + 1))),
                     cands |-> RemoveAt(f.cands, potentialSubtopicIndex),
                     ids |-> f.ids + 1,
                     args |-> ArgumentsAfterSplice(f.args, subtopic)],
                    timeSpentToday + taskDuration,
                    Increment(disciplineCountToday, subtopic.discipline.id),
                    IndexAfterPlacement(potentialSubtopicIndex),
                    settings, seed)
             ELSE FillDay(f, timeSpentToday, disciplineCountToday,
                          potentialSubtopicIndex + 1, settings, seed)

\* one iteration of the for loop over the horizon (lines 329-370), for day
\* today + i; g = [plans, cands, ids, args]
FillDayOfHorizon(g, today, i, settings, seed) ==
  LET dateStr == addDays(today, i)
      dayPlan == g.plans[dateStr]
  IN  IF dateStr \notin DOMAIN g.plans \/ dayPlan.isRestDay THEN g
      ELSE CHOOSE r \in
             { [plans |-> [g.plans EXCEPT ![dateStr].tasks = f.tasks],
                cands |-> f.cands, ids |-> f.ids, args |-> f.args] :
                 f \in { FillDay([tasks |-> dayPlan.tasks, cands |-> g.cands,
                                  ids |-> g.ids, args |-> g.args],
                                 SumDuration(dayPlan.tasks),
                                 CountDisciplines(dayPlan.tasks, << >>),
                                 1, settings, seed) } } :
             TRUE

\* the iterations lo .. hi of the for loop, in order (the range is halved to
\* keep the evaluation shallow)
RECURSIVE GreedyFill(_, _, _, _, _, _)
GreedyFill(g, today, lo, hi, settings, seed) ==
  IF lo > hi THEN g
  ELSE IF lo = hi THEN FillDayOfHorizon(g, today, lo, settings, seed)
  ELSE LET mid == (lo + hi) \div 2
       IN  \* firstHalf is a computed value when the second half starts
           CHOOSE r \in
             { GreedyFill(firstHalf, today, mid + 1, hi, settings, seed) :
                 firstHalf \in {GreedyFill(g, today, lo, mid, settings, seed)} } :
             TRUE

\* mutant of NoDisciplines: the early return is never taken
NoDisciplinesNever(disciplines) == FALSE

\* !disciplines || disciplines.length === 0
NoDisciplines(disciplines) == disciplines = << >>

\* a run of reorganizeAgenda: what it returns (plans) and what its arguments
\* are when it returns (args)
reorganizeAgendaRun(disciplines, settings, today, seed) ==
  IF NoDisciplines(disciplines)
    THEN [plans |-> << >>, cands |-> << >>, ids |-> 0, ranking |-> << >>,
          args |-> [disciplines |-> disciplines, settings |-> settings]]
  ELSE LET Fill(reviewTasks, placed, ranked) ==
             CHOOSE run \in
               { [plans |-> g.plans, cands |-> g.cands, ids |-> g.ids,
                  args |-> g.args, ranking |-> ranked] :
                   g \in { GreedyFill(
                             [plans |-> placed,
                              cands |-> ranked,
                              ids |-> Len(reviewTasks),
                              args |-> [disciplines |-> disciplines,
                                        settings |-> settings]],
                             today, 0, planningHorizon - 1, settings, seed) } } :
               TRUE
           Rank(reviewTasks, placed) ==
             CHOOSE run \in
               { Fill(reviewTasks, placed, ranked) :
                   ranked \in {studyCandidates(disciplines, today,
                                  ExcludingReviews(reviewTasks, placed))} } :
               TRUE
           Place(reviewTasks) ==
             CHOOSE run \in
               { Rank(reviewTasks, placed) :
                   placed \in {PlaceReviews(EmptyPlans(today, settings),
                                            reviewTasks, settings)} } : TRUE
       IN  CHOOSE run \in
             { Place(reviewTasks) :
                 reviewTasks \in {createReviewTasks(disciplines, settings,
                                                    today, seed)} } : TRUE

reorganizeAgenda(disciplines, settings, today, seed) ==
  reorganizeAgendaRun(disciplines, settings, today, seed).plans

\* ------------------------------------------------------------ input data
Unit(id, name, difficulty, enemIncidence) ==
  [id |-> id, name |-> name, difficulty |-> difficulty,
   enemIncidence |-> enemIncidence, confidence |-> 3,
   lastStudied |-> NoDate, history |-> << >>]

\* unit ids are unique within their topic only: both topics of "mat" have a
\* unit "u1", and both disciplines have a topic "t1"
Curriculum ==
  << [id |-> "mat", name |-> "Matematica", weight |-> 2,
      topics |-> << [id |-> "t1", name |-> "Algebra",
                     subtopics |-> << Unit("u1", "Funcoes", 3, "alta") >>],
                    [id |-> "t2", name |-> "Geometria",
                     subtopics |-> << Unit("u1", "Areas", 2, "media") >>] >>],
     [id |-> "hum", name |-> "Humanas", weight |-> 1,
      topics |-> << [id |-> "t1", name |-> "Historia",
                     subtopics |-> << Unit("u2", "Brasil", 3, "baixa") >>] >>] >>

DisciplineChoices == { << >>, Curriculum }

\* INITIAL_APP_STATE.settings
DefaultSettings ==
  [dailyStudyMinutes |-> 180, studyDaysPerWeek |-> 6,
   maxTasksPerDisciplinePerDay |-> 2, maxReviewsPerDay |-> 3,
   autoReplanOnComplete |-> TRUE, autoReview |-> TRUE,
   baseCadence |-> <<1, 3, 7>>,
   confidenceFactors |-> [low |-> 8, high |-> 15]]

\* the settings loadState can return: the stored settings over the defaults
SettingsChoices ==
  { DefaultSettings,
    [DefaultSettings EXCEPT !.dailyStudyMinutes = 70,
                            !.studyDaysPerWeek = 5,
                            !.maxTasksPerDisciplinePerDay = 1,
                            !.maxReviewsPerDay = 2,
                            !.autoReplanOnComplete = FALSE,
                            !.baseCadence = <<1>>],
    [DefaultSettings EXCEPT !.dailyStudyMinutes = 115,
                            !.studyDaysPerWeek = 7,
                            !.maxTasksPerDisciplinePerDay = 1,
                            !.maxReviewsPerDay = 2],
    [DefaultSettings EXCEPT !.dailyStudyMinutes = 90,
                            !.studyDaysPerWeek = 7,
                            !.maxReviewsPerDay = 1,
                            !.baseCadence = <<1>>],
    [DefaultSettings EXCEPT !.dailyStudyMinutes = 45,
                            !.studyDaysPerWeek = 3,
                            !.maxTasksPerDisciplinePerDay = 1,
                            !.autoReplanOnComplete = FALSE,
                            !.autoReview = FALSE,
                            !.baseCadence = << >>] }

Confidences == {2}
Notes == {"ok"}
\* two outcomes of the random source are told apart
Seeds == {1, 2}

\* ------------------------------------------------------------- the state
\* today          the date of the wall clock (getTodayDateString)
\* state          the React state of App: settings, disciplines, plans and
\*                lastReorganized; state.plans is a reference: the DailyPlan
\*                objects of the plan map are heap[state.plans]
\* heap           the DailyPlan objects, by plan map
\* taskToComplete the task of the open completion dialog, or NoTask
\* lastCall       arguments and result of the latest call of reorganizeAgenda;
\*                lastCall.before holds the result of the call before it when
\*                that call had the same arguments, and is empty otherwise;
\*                lastCall.after holds the arguments as they are in memory
\*                when the call returns
VARIABLES today, state, heap, taskToComplete, lastCall

vars == <<today, state, heap, taskToComplete, lastCall>>

NoTask == [id |-> <<0, 0>>]

\* the plan map of the current state, date -> DailyPlan
Plans == heap[state.plans]

Init ==
  /\ today = FirstDay
  /\ \E loadedDisciplines \in DisciplineChoices,
        loadedSettings \in SettingsChoices :
       state = [settings |-> loadedSettings,
                disciplines |-> loadedDisciplines,
                plans |-> 0, lastReorganized |-> NoDate]
  /\ heap = [r \in 0..1 |-> << >>]
  /\ taskToComplete = NoTask
  /\ lastCall = [disciplines |-> << >>, settings |-> state.settings,
                 today |-> FirstDay, result |-> << >>, before |-> << >>,
                 ranking |-> << >>,
                 after |-> [disciplines |-> << >>,
                            settings |-> state.settings]]

\* the DailyPlan objects that stay reachable once the plan map plansRef is the
\* only one in use: the objects of an abandoned plan map are dropped
Collect(h, plansRef) == [r \in DOMAIN h |-> IF r = plansRef THEN h[r] ELSE << >>]

\* the effect "initial plan generation if none exists" has work to do
EffectPending ==
  Len(state.disciplines) > 0 /\ DOMAIN Plans = {}

\* a handler of the rendered page can run: no dialog is open and the effects
\* of the last render have run
Idle == taskToComplete = NoTask /\ ~EffectPending

\* the record of a call of reorganizeAgenda and of what it returned
CallRecord(disciplines, settings, date, run) ==
  [disciplines |-> disciplines, settings |-> settings, today |-> date,
   result |-> run.plans, after |-> run.args, ranking |-> run.ranking,
   before |-> IF /\ lastCall.disciplines = disciplines
                 /\ lastCall.settings = settings
                 /\ lastCall.today = date
                THEN <<lastCall.result>> ELSE << >>]

\* setState(s => ({...s, plans: newPlans, lastReorganized: today})) with
\* newPlans = reorganizeAgenda(state.disciplines, state.settings).  The former
\* plan map is dropped with the former state; the new objects take slot 0.
\* state.disciplines and state.settings are the objects the call is given.
Replan(seed) ==
  \E run \in {reorganizeAgendaRun(state.disciplines, state.settings, today,
                                   seed)} :
      /\ heap' = [r \in DOMAIN heap |-> IF r = 0 THEN run.plans ELSE << >>]
      /\ state' = [state EXCEPT !.plans = 0, !.lastReorganized = today,
                                !.disciplines = run.args.disciplines,
                                !.settings = run.args.settings]
      /\ lastCall' = CallRecord(state.disciplines, state.settings, today,
                                run)

\* midnight passes
Tick ==
  /\ today < FirstDay + MaxTicks
  /\ today' = today + 1
  /\ heap' = Collect(heap, state.plans)
  /\ UNCHANGED <<state, taskToComplete, lastCall>>

InitialPlanEffect ==
  /\ EffectPending
  /\ \E seed \in Seeds : Replan(seed)
  /\ UNCHANGED <<today, taskToComplete>>

handleReorganize ==
  /\ Idle
  /\ \E seed \in Seeds : Replan(seed)
  /\ UNCHANGED <<today, taskToComplete>>

\* the button of a task of today's plan that is not completed
handleStartCompleteTask(task) ==
  /\ Idle
  /\ taskToComplete' = task
  /\ heap' = Collect(heap, state.plans)
  /\ UNCHANGED <<today, state, lastCall>>

handleCancelCompleteTask ==
  /\ taskToComplete # NoTask
  /\ taskToComplete' = NoTask
  /\ heap' = Collect(heap, state.plans)
  /\ UNCHANGED <<today, state, lastCall>>

\* ------------------------------------------- handleConfirmCompleteTask
\* mutant of CompleteUnit: the entry is appended, lastStudied is not written
CompleteUnitUndated(st, confidence, notes, date) ==
  [st EXCEPT !.confidence = confidence,
             !.history = Append(@, [date |-> date, confidence |-> confidence,
                                    notes |-> notes])]

\* { ...st, confidence, lastStudied: today, history: [...st.history, entry] }
CompleteUnit(st, confidence, notes, date) ==
  [st EXCEPT !.confidence = confidence,
             !.lastStudied = date,
             !.history = Append(@, [date |-> date, confidence |-> confidence,
                                    notes |-> notes])]

\* mutant of IsTargetUnit: the topic id of the task is not looked at
IsTargetUnitOfAnyTopic(d, t, st, task) ==
  d.id = task.disciplineId /\ st.id = task.subtopicId

\* the three id tests of lines 70, 74 and 78
IsTargetUnit(d, t, st, task) ==
  d.id = task.disciplineId /\ t.id = task.topicId /\ st.id = task.subtopicId

\* prevState.disciplines.map(d => ...)
CompleteInDisciplines(disciplines, task, confidence, notes, date) ==
  [di \in DOMAIN disciplines |->
     LET d == disciplines[di]
     IN  [d EXCEPT !.topics =
           [ti \in DOMAIN d.topics |->
              LET t == d.topics[ti]
              IN  [t EXCEPT !.subtopics =
                    [si \in DOMAIN t.subtopics |->
                       IF IsTargetUnit(d, t, t.subtopics[si], task)
                         THEN CompleteUnit(t.subtopics[si], confidence,
                                           notes, date)
                         ELSE t.subtopics[si]]]]]]

\* mutant of CompletedTask: the task is marked, the feedback is not stamped
CompletedTaskUnstamped(t, confidence, notes, date) ==
  [t EXCEPT !.completed = TRUE]

\* { ...t, completed: true, completionDate: today, confidence, notes }
CompletedTask(t, confidence, notes, date) ==
  [f \in DOMAIN t \cup {"completionDate", "confidence", "notes"} |->
     CASE f = "completed" -> TRUE
       [] f = "completionDate" -> date
       [] f = "confidence" -> confidence
       [] f = "notes" -> notes
       [] OTHER -> t[f]]

\* todayPlan.tasks.map(t => t.id === taskToComplete.id ? {...} : t)
CompleteInTasks(tasks, task, confidence, notes, date) ==
  [k \in DOMAIN tasks |->
     IF tasks[k].id = task.id
       THEN CompletedTask(tasks[k], confidence, notes, date)
       ELSE tasks[k]]

\* lines 97-103: newPlans = {...prevState.plans} is a new map of the same
\* DailyPlan objects, and the assignment to todayPlan.tasks writes the object
\* that prevState.plans holds as well
MarkTodayPlan(h, plansRef, task, confidence, notes, date) ==
  IF date \in DOMAIN h[plansRef]
    THEN [h EXCEPT ![plansRef][date].tasks =
            CompleteInTasks(@, task, confidence, notes, date)]
    ELSE h

RECURSIVE SumHistory(_)
SumHistory(flat) ==
  IF flat = << >> THEN 0
  ELSE Len(Head(flat).st.history) + SumHistory(Tail(flat))

TotalCompletions(disciplines) == SumHistory(FlattenUnits(disciplines))

\* mutant of ReplanInput: the scheduler is given prevState.disciplines
ReplanInputStale(prevDisciplines, newDisciplines) == prevDisciplines

\* the disciplines the scheduler is given by the auto-replan (line 108)
ReplanInput(prevDisciplines, newDisciplines) == newDisciplines

handleConfirmCompleteTask(confidence, notes) ==
  /\ taskToComplete # NoTask
  /\ TotalCompletions(state.disciplines) < MaxCompletions
  /\ \E newDisciplines \in {CompleteInDisciplines(state.disciplines,
                             taskToComplete, confidence, notes, today)},
        marked \in {MarkTodayPlan(heap, state.plans, taskToComplete,
                                  confidence, notes, today)} :
         IF state.settings.autoReplanOnComplete
           THEN \E seed \in Seeds :
                  \E run \in {reorganizeAgendaRun(
                                 ReplanInput(state.disciplines,
                                             newDisciplines),
                                 state.settings, today, seed)} :
                      /\ heap' = [marked EXCEPT ![1 - state.plans] = run.plans]
                      /\ state' = [state EXCEPT
                                     !.disciplines = newDisciplines,
                                     !.plans = 1 - state.plans,
                                     !.lastReorganized = today]
                      /\ lastCall' = CallRecord(
                                        ReplanInput(state.disciplines,
                                                    newDisciplines),
                                        state.settings, today, run)
           ELSE /\ heap' = marked
                /\ state' = [state EXCEPT !.disciplines = newDisciplines]
                /\ UNCHANGED lastCall
  /\ taskToComplete' = NoTask
  /\ UNCHANGED today

\* ------------------------------------------------------ the application
StartableTasks ==
  IF today \in DOMAIN Plans
    THEN {Plans[today].tasks[k] : k \in
            {j \in DOMAIN Plans[today].tasks : ~Plans[today].tasks[j].completed}}
    ELSE {}

Next ==
  \/ Tick
  \/ InitialPlanEffect
  \/ handleReorganize
  \/ \E task \in StartableTasks : handleStartCompleteTask(task)
  \/ handleCancelCompleteTask
  \/ \E confidence \in Confidences, notes \in Notes :
       handleConfirmCompleteTask(confidence, notes)

Spec == Init /\ [][Next]_vars

\* ------------------------------------------- the scheduler on stored data
\* The stored state loadState returns is whatever earlier sessions left: units
\* with a history of completions, and settings as the settings form saved
\* them (the number fields take any number the user types).

\* a unit as n completions on the n days up to lastDay leave it, the last of
\* them with the given confidence
StudiedUnit(unit, n, lastDay, confidence) ==
  [unit EXCEPT
     !.confidence = confidence,
     !.lastStudied = lastDay,
     !.history = [k \in 1..n |->
                    [date |-> lastDay - (n - k),
                     confidence |-> IF k = n THEN confidence ELSE 3,
                     notes |-> "ok"]]]

\* the curriculum with its first unit (mat / t1 / u1) studied
CurriculumStudied(n, lastDay, confidence) ==
  [Curriculum EXCEPT
     ![1].topics[1].subtopics[1] = StudiedUnit(@, n, lastDay, confidence)]

\* a discipline that has no topic yet
NoUnits == << [id |-> "mat", name |-> "Matematica", weight |-> 2,
               topics |-> << >>] >>

\* the curriculum with its first unit studied once on the day before the
\* run and the unit of the same id in the next topic (mat / t2 / u1) studied
\* n times up to lastDay
CurriculumBothStudied(n, lastDay) ==
  [CurriculumStudied(1, FirstDay - 1, 3) EXCEPT
     ![1].topics[2].subtopics[1] = StudiedUnit(@, n, lastDay, 3)]

StoredDisciplines ==
  {<< >>, Curriculum, NoUnits}
    \cup {CurriculumBothStudied(n, 1) : n \in {1, MaxHistory}}
    \cup {CurriculumStudied(n, lastDay, confidence) :
            n \in 1..MaxHistory, lastDay \in {1, FirstDay - 1},
            confidence \in {1, 3, 5}}

EveryDay == [DefaultSettings EXCEPT !.studyDaysPerWeek = 7]

StoredSettings ==
  {[DefaultSettings EXCEPT !.studyDaysPerWeek = n] : n \in (0 - 1)..9}
    \cup {[EveryDay EXCEPT !.confidenceFactors.low = low,
                           !.baseCadence = baseCadence] :
            low \in {4, 8}, baseCadence \in {<< >>, <<1>>, <<1, 3, 7>>}}
    \cup {[EveryDay EXCEPT !.dailyStudyMinutes = 20],
          [EveryDay EXCEPT !.maxReviewsPerDay = 0],
          [EveryDay EXCEPT !.baseCadence = <<100>>]}

StoredInit ==
  /\ today = FirstDay
  /\ \E loadedDisciplines \in StoredDisciplines,
        loadedSettings \in StoredSettings :
       state = [settings |-> loadedSettings,
                disciplines |-> loadedDisciplines,
                plans |-> 0, lastReorganized |-> NoDate]
  /\ heap = [r \in 0..1 |-> << >>]
  /\ taskToComplete = NoTask
  /\ lastCall = [disciplines |-> << >>, settings |-> state.settings,
                 today |-> FirstDay, result |-> << >>, before |-> << >>,
                 ranking |-> << >>,
                 after |-> [disciplines |-> << >>,
                            settings |-> state.settings]]

\* the scheduler runs from the initial plan effect and from the button
StoredNext ==
  \/ InitialPlanEffect
  \/ handleReorganize

StoredSpec == StoredInit /\ [][StoredNext]_vars

\* ----------------------------------------------- the ranking on any date
\* the days on which the scheduler is run: before the first exam, between the
\* two exams and after the second
RankingDays == {FirstDay, ENEM_DATE_1 + 1, ENEM_DATE_2 + 1}

\* how many days before the run a studied unit was last studied
RankingAges == {2, 6, 20, 45, 100}

\* three disciplines (second exam, first exam, neither) of three topics each:
\* the unit of the second topic is the unit of the first one, studied once;
\* the unit of the third topic is a hard one, studied once with confidence 1
TwinDiscipline(id, weight, unit, lastDay) ==
  [id |-> id, name |-> id, weight |-> weight,
   topics |-> << [id |-> "t1", name |-> "novo", subtopics |-> <<unit>>],
                 [id |-> "t2", name |-> "visto",
                  subtopics |-> <<StudiedUnit(unit, 1, lastDay, 3)>>],
                 [id |-> "t3", name |-> "dificil",
                  subtopics |-> <<StudiedUnit(Unit("u9", "Extra", 5, "alta"),
                                              1, lastDay, 1)>>] >>]

TwinCurriculum(lastDay) ==
  << TwinDiscipline("mat", 2, Unit("u1", "Funcoes", 3, "alta"), lastDay),
     TwinDiscipline("hum", 1, Unit("u2", "Brasil", 3, "baixa"), lastDay),
     TwinDiscipline("art", 1, Unit("u3", "Barroco", 1, "media"), lastDay) >>

\* without automatic reviews every unit, studied or not, is a study candidate
RankingSettings ==
  {[EveryDay EXCEPT !.autoReview = FALSE,
                    !.dailyStudyMinutes = minutes,
                    !.maxTasksPerDisciplinePerDay = cap] :
     minutes \in {90, 180}, cap \in {1, 2}}

RankingInit ==
  /\ today \in RankingDays
  /\ \E age \in RankingAges, loadedSettings \in RankingSettings :
       state = [settings |-> loadedSettings,
                disciplines |-> TwinCurriculum(today - age),
                plans |-> 0, lastReorganized |-> NoDate]
  /\ heap = [r \in 0..1 |-> << >>]
  /\ taskToComplete = NoTask
  /\ lastCall = [disciplines |-> << >>, settings |-> state.settings,
                 today |-> today, result |-> << >>, before |-> << >>,
                 ranking |-> << >>,
                 after |-> [disciplines |-> << >>,
                            settings |-> state.settings]]

RankingSpec == RankingInit /\ [][StoredNext]_vars

\* ================================================================ claims
\* what the latest call of reorganizeAgenda returned, and what it was given
Returned == lastCall.result
Given == lastCall.settings

\* all the tasks of a plan map, as a set of <<date, position>> places
TaskPlaces(plans) ==
  UNION {{<<d, k>> : k \in DOMAIN plans[d].tasks} : d \in DOMAIN plans}

TaskAt(plans, p) == plans[p[1]].tasks[p[2]]

IsStudy(t) == t.type = "study"

\* the review tasks the latest call generated (their ids put aside)
GeneratedReviews ==
  createReviewTasks(lastCall.disciplines, lastCall.settings, lastCall.today, 1)

\* C1: in every returned plan map, the durations of the tasks of a day that
\* is not a rest day add up to at most settings.dailyStudyMinutes
C1_Capacity ==
  \A d \in DOMAIN Returned :
    ~Returned[d].isRestDay =>
      SumDuration(Returned[d].tasks) <= Given.dailyStudyMinutes

\* a day filled to the minute by a review and a study task
C1_Witness ==
  \E d \in DOMAIN Returned :
    /\ SumDuration(Returned[d].tasks) = Given.dailyStudyMinutes
    /\ CountWhere(Returned[d].tasks, IsReview) >= 1
    /\ CountWhere(Returned[d].tasks, IsStudy) >= 1

\* C2: in every returned plan map, no day holds more than
\* settings.maxTasksPerDisciplinePerDay tasks of one discipline, review and
\* study tasks counted together
C2_DisciplineCap ==
  \A d \in DOMAIN Returned :
    \A k \in DOMAIN Returned[d].tasks :
      LET OfSameDiscipline(t) ==
            t.disciplineId = Returned[d].tasks[k].disciplineId
      IN  CountWhere(Returned[d].tasks, OfSameDiscipline)
            <= Given.maxTasksPerDisciplinePerDay

\* C3 (as claimed): in every returned plan map a unit id appears in at most
\* one task of the horizon, also when unit ids are unique within their topic
\* only
C3_UnitIdOnce ==
  \A p, q \in TaskPlaces(Returned) :
    TaskAt(Returned, p).subtopicId = TaskAt(Returned, q).subtopicId => p = q

\* C3 (amended): in every returned plan map a unit, identified by its
\* discipline id, topic id and unit id together, has at most one task
C3_UnitOnce ==
  \A p, q \in TaskPlaces(Returned) :
    ( /\ TaskAt(Returned, p).disciplineId = TaskAt(Returned, q).disciplineId
      /\ TaskAt(Returned, p).topicId = TaskAt(Returned, q).topicId
      /\ TaskAt(Returned, p).subtopicId = TaskAt(Returned, q).subtopicId )
    => p = q

\* two units of different topics that share their id both have a task
C3_Witness ==
  \E p, q \in TaskPlaces(Returned) :
    /\ TaskAt(Returned, p).subtopicId = TaskAt(Returned, q).subtopicId
    /\ TaskAt(Returned, p).topicId # TaskAt(Returned, q).topicId

\* C4: in every returned plan map a day holds at most
\* settings.maxReviewsPerDay tasks of type 'review'
C4_ReviewCap ==
  \A d \in DOMAIN Returned :
    CountWhere(Returned[d].tasks, IsReview) <= Given.maxReviewsPerDay

\* more reviews were due on a day than the cap lets in, and the day holds
\* as many as the cap
C4_Witness ==
  \E d \in DOMAIN Returned :
    LET DueThatDay(t) == t.reviewDateStr = d
    IN  /\ CountWhere(GeneratedReviews, DueThatDay) > Given.maxReviewsPerDay
        /\ CountWhere(Returned[d].tasks, IsReview) = Given.maxReviewsPerDay

\* C5: in every returned plan map isRestDay is the negation of the study-day
\* predicate for the date, and a rest day has no task
C5_RestDay ==
  \A d \in DOMAIN Returned :
    /\ Returned[d].isRestDay = ~isStudyDay(d, Given)
    /\ Returned[d].isRestDay => Returned[d].tasks = << >>

\* a review was due on a rest day of the horizon, and study candidates were
\* left to place after that day
C5_Witness ==
  /\ \E k \in DOMAIN GeneratedReviews :
       /\ GeneratedReviews[k].reviewDateStr \in DOMAIN Returned
       /\ Returned[GeneratedReviews[k].reviewDateStr].isRestDay
  /\ \E d, e \in DOMAIN Returned :
       /\ d < e
       /\ Returned[d].isRestDay
       /\ CountWhere(Returned[e].tasks, IsStudy) >= 1

\* C6: two calls of reorganizeAgenda with the same disciplines,
\* settings and date return identical plan maps, task ids included
C6_Determinism ==
  lastCall.before # << >> => lastCall.before[1] = lastCall.result

\* a second call with the arguments of the first, with tasks to place
C6_Witness ==
  /\ lastCall.before # << >>
  /\ TaskPlaces(lastCall.result) # {}
  /\ lastCall.before[1] # lastCall.result

\* -------------------------------------------- claims of the completion
UnitPositions(disciplines) ==
  UNION { UNION { {<<di, ti, si>> :
                     si \in DOMAIN disciplines[di].topics[ti].subtopics} :
                  ti \in DOMAIN disciplines[di].topics} :
          di \in DOMAIN disciplines}

UnitAt(disciplines, pos) ==
  disciplines[pos[1]].topics[pos[2]].subtopics[pos[3]]

\* the unit at pos is the one the task names by its three ids
NamedBy(disciplines, pos, task) ==
  /\ disciplines[pos[1]].id = task.disciplineId
  /\ disciplines[pos[1]].topics[pos[2]].id = task.topicId
  /\ UnitAt(disciplines, pos).id = task.subtopicId

\* C7: confirming a completion appends one entry {date: today, confidence,
\* notes} at the end of the history of the unit the task names by
\* (disciplineId, topicId, subtopicId), sets its lastStudied to today and its
\* confidence to the given value, and leaves history, lastStudied and
\* confidence of every other unit as they were
C7_CompletionUpdatesUnit ==
  [][\A confidence \in Confidences, notes \in Notes :
       handleConfirmCompleteTask(confidence, notes) =>
         /\ UnitPositions(state'.disciplines) = UnitPositions(state.disciplines)
         /\ \A pos \in UnitPositions(state.disciplines) :
              LET old == UnitAt(state.disciplines, pos)
                  new == UnitAt(state'.disciplines, pos)
              IN  IF NamedBy(state.disciplines, pos, taskToComplete)
                    THEN /\ new.history =
                              Append(old.history,
                                     [date |-> today, confidence |-> confidence,
                                      notes |-> notes])
                         /\ new.lastStudied = today
                         /\ new.confidence = confidence
                    ELSE /\ new.history = old.history
                         /\ new.lastStudied = old.lastStudied
                         /\ new.confidence = old.confidence]_vars

\* of two units with the same unit id, one has been completed and the other
\* has not
C7_Witness ==
  \E pos, other \in UnitPositions(state.disciplines) :
    /\ pos # other
    /\ UnitAt(state.disciplines, pos).id = UnitAt(state.disciplines, other).id
    /\ Len(UnitAt(state.disciplines, pos).history) = 1
    /\ UnitAt(state.disciplines, pos).lastStudied # NoDate
    /\ UnitAt(state.disciplines, other).history = << >>
    /\ UnitAt(state.disciplines, other).lastStudied = NoDate

\* today's plan of the plan map plans holds the task id, marked completed
\* today with the given feedback
CompletedInToday(plans, date, id, confidence, notes) ==
  /\ date \in DOMAIN plans
  /\ \E k \in DOMAIN plans[date].tasks :
       LET t == plans[date].tasks[k]
       IN  /\ t.id = id
           /\ t.completed
           /\ {"completionDate", "confidence", "notes"} \subseteq DOMAIN t
           /\ t.completionDate = date
           /\ t.confidence = confidence
           /\ t.notes = notes

InToday(plans, date, id) ==
  /\ date \in DOMAIN plans
  /\ \E k \in DOMAIN plans[date].tasks : plans[date].tasks[k].id = id

\* C8 (as claimed): after a confirmed completion the plan for today in the
\* application state holds the task marked completed, with completionDate =
\* today and the given confidence and notes, whatever autoReplanOnComplete is
C8_CompletedInPlan ==
  [][\A confidence \in Confidences, notes \in Notes :
       handleConfirmCompleteTask(confidence, notes) =>
         CompletedInToday(heap'[state'.plans], today, taskToComplete.id,
                          confidence, notes)]_vars

\* C8 (amended): that holds when autoReplanOnComplete is false and today's
\* plan holds the task; when autoReplanOnComplete is true the plan map of the
\* new state is the regenerated one, and none of its tasks is completed
C8_CompletedInPlanUnlessReplanned ==
  [][\A confidence \in Confidences, notes \in Notes :
       handleConfirmCompleteTask(confidence, notes) =>
         /\ ( /\ ~state.settings.autoReplanOnComplete
              /\ InToday(Plans, today, taskToComplete.id) )
            => CompletedInToday(heap'[state'.plans], today, taskToComplete.id,
                                confidence, notes)
         /\ state.settings.autoReplanOnComplete
            => \A p \in TaskPlaces(heap'[state'.plans]) :
                 ~TaskAt(heap'[state'.plans], p).completed]_vars

\* a task of today's plan is marked completed
C8_Witness ==
  /\ ~state.settings.autoReplanOnComplete
  /\ today \in DOMAIN Plans
  /\ \E k \in DOMAIN Plans[today].tasks :
       /\ Plans[today].tasks[k].completed
       /\ Plans[today].tasks[k].completionDate = today

\* C9: with autoReplanOnComplete, confirming a completion runs the scheduler
\* on the disciplines as updated by the completion, puts its result in place
\* of the whole plan map and sets lastReorganized to today, in one transition
C9_ReplanOnUpdated ==
  [][\A confidence \in Confidences, notes \in Notes :
       ( /\ handleConfirmCompleteTask(confidence, notes)
         /\ state.settings.autoReplanOnComplete ) =>
         /\ state'.lastReorganized = today
         /\ \A pos \in UnitPositions(state'.disciplines) :
              NamedBy(state.disciplines, pos, taskToComplete) =>
                UnitAt(state'.disciplines, pos).lastStudied = today
         /\ \E seed \in Seeds :
              heap'[state'.plans] =
                reorganizeAgenda(state'.disciplines, state.settings, today,
                                 seed)]_vars

\* the state a completion with auto-replan leaves: the plan map is the one
\* made from the disciplines that hold the completion of today
C9_Witness ==
  /\ state.plans = 1
  /\ state.settings.autoReplanOnComplete
  /\ state.lastReorganized = today
  /\ lastCall.disciplines = state.disciplines
  /\ \E pos \in UnitPositions(state.disciplines) :
       UnitAt(state.disciplines, pos).lastStudied = today
  /\ Plans = lastCall.result

\* C10: confirming a completion modifies no object reachable from the
\* previous state: the DailyPlan objects of prevState.plans (heap[state.plans]
\* before the step) have the contents they had.  (The disciplines of the
\* previous state are untouched: the handler builds newDisciplines from
\* copies.)
C10_PreviousStateUntouched ==
  [][\A confidence \in Confidences, notes \in Notes :
       handleConfirmCompleteTask(confidence, notes) =>
         heap'[state.plans] = heap[state.plans]]_vars

C12_Horizon ==
  lastCall.disciplines # << >> =>
    /\ DOMAIN Returned = lastCall.today .. (lastCall.today + 89)
    /\ Cardinality(DOMAIN Returned) = 90
    /\ \A d \in DOMAIN Returned : Returned[d].date = d

\* a call with a discipline that has no unit: 90 entries, no task
C12_Witness ==
  /\ lastCall.disciplines # << >>
  /\ FlattenUnits(lastCall.disciplines) = << >>
  /\ Cardinality(DOMAIN Returned) = 90
  /\ TaskPlaces(Returned) = {}

\* two tasks, or a task and a candidate, of the same unit
SameUnit(t, u) ==
  /\ t.disciplineId = u.disciplineId
  /\ t.topicId = u.topicId
  /\ t.subtopicId = u.subtopicId

\* the places of the plan map that hold a review task of the unit of r
ReviewPlaces(plans, r) ==
  {p \in TaskPlaces(plans) :
     IsReview(TaskAt(plans, p)) /\ SameUnit(TaskAt(plans, p), r)}

\* C13: in one run no unit has both a review task and a study task: a unit
\* the cadence generator emitted a review for has no task of type 'study' in
\* the returned map
C13_ReviewOrStudy ==
  \A k \in DOMAIN GeneratedReviews :
    \A p \in TaskPlaces(Returned) :
      SameUnit(TaskAt(Returned, p), GeneratedReviews[k])
        => ~IsStudy(TaskAt(Returned, p))

\* a unit has its review in the map, and other units have study tasks
C13_Witness ==
  /\ \E k \in DOMAIN GeneratedReviews :
       ReviewPlaces(Returned, GeneratedReviews[k]) # {}
  /\ \E p \in TaskPlaces(Returned) : IsStudy(TaskAt(Returned, p))

\* C14: a review task is in the returned map on its due date only: every
\* review task of the map is a generated review, on the day it is due, once;
\* a generated review whose due date is a rest day is on no day, and one that
\* is not on its due date (the minutes or the review cap of that day did not
\* let it in) is on no other day
C14_ReviewOnDueDateOnly ==
  /\ \A p \in TaskPlaces(Returned) :
       IsReview(TaskAt(Returned, p)) =>
         \E k \in DOMAIN GeneratedReviews :
           /\ SameUnit(TaskAt(Returned, p), GeneratedReviews[k])
           /\ GeneratedReviews[k].reviewDateStr = p[1]
  /\ \A k \in DOMAIN GeneratedReviews :
       LET r == GeneratedReviews[k]
       IN  /\ \A p \in ReviewPlaces(Returned, r) : p[1] = r.reviewDateStr
           /\ Cardinality(ReviewPlaces(Returned, r)) <= 1
           /\ ( r.reviewDateStr \in DOMAIN Returned
                 /\ Returned[r.reviewDateStr].isRestDay )
               => ReviewPlaces(Returned, r) = {}

\* a generated review that the review cap of its due date kept out, and that
\* is on no day of the map
C14_Witness ==
  \E k \in DOMAIN GeneratedReviews :
    LET r == GeneratedReviews[k]
    IN  /\ r.reviewDateStr \in DOMAIN Returned
        /\ ~Returned[r.reviewDateStr].isRestDay
        /\ CountWhere(Returned[r.reviewDateStr].tasks, IsReview)
             = Given.maxReviewsPerDay
        /\ ReviewPlaces(Returned, r) = {}

\* ------------------------------------------ claims of the review cadence
\* the units the latest call was given
GivenUnits == FlattenUnits(lastCall.disciplines)

\* the generated reviews of the unit c
ReviewsOfUnit(c) ==
  {k \in DOMAIN GeneratedReviews :
     /\ GeneratedReviews[k].disciplineId = c.discipline.id
     /\ GeneratedReviews[k].topicId = c.topic.id
     /\ GeneratedReviews[k].subtopicId = c.st.id}

\* the nearest integer of a value given in tenths, halves going up
Rounded(x10) ==
  CHOOSE n \in 0..(x10 + 1) : 10 * n - 5 <= x10 /\ x10 < 10 * n + 5

\* the confidence of the latest entry of the history
LastConfidence(st) == st.history[Len(st.history)].confidence

\* the factor of the claim, in tenths
ClaimedFactor(st, settings) ==
  IF LastConfidence(st) <= 2 THEN settings.confidenceFactors.low
  ELSE IF LastConfidence(st) >= 4 THEN settings.confidenceFactors.high
  ELSE 10

ClaimedDue(st, settings) ==
  LET r == Rounded(settings.baseCadence[Len(st.history)]
                     * ClaimedFactor(st, settings))
  IN  st.lastStudied + (IF r >= 1 THEN r ELSE 1)

\* C15: for a unit with lastStudied set and 1 <= history.length <=
\* baseCadence.length, the review createReviewTasks generates is due on
\* lastStudied + max(1, round(baseCadence[history.length - 1] * f)), f being
\* confidenceFactors.low for a latest confidence <= 2, confidenceFactors.high
\* for one >= 4 and 1 otherwise; that review is generated when the date is not
\* before today
C15_DueDate ==
  lastCall.settings.autoReview =>
    \A i \in DOMAIN GivenUnits :
      LET c == GivenUnits[i]
      IN  ( /\ c.st.lastStudied # NoDate
            /\ 1 <= Len(c.st.history)
            /\ Len(c.st.history) <= Len(lastCall.settings.baseCadence) )
          => /\ \A k \in ReviewsOfUnit(c) :
                  GeneratedReviews[k].reviewDateStr
                    = ClaimedDue(c.st, lastCall.settings)
             /\ ClaimedDue(c.st, lastCall.settings) >= lastCall.today
                  => Cardinality(ReviewsOfUnit(c)) = 1

\* a unit completed twice, the last time with confidence 5, under the cadence
\* [1, 3, 7] and the factor 1.5: its review is due round(4.5) = 5 days after
C15_Witness ==
  \E i \in DOMAIN GivenUnits :
    LET c == GivenUnits[i]
    IN  /\ Len(c.st.history) = 2
        /\ LastConfidence(c.st) = 5
        /\ lastCall.settings.baseCadence = <<1, 3, 7>>
        /\ lastCall.settings.confidenceFactors.high = 15
        /\ \E k \in ReviewsOfUnit(c) :
             GeneratedReviews[k].reviewDateStr = c.st.lastStudied + 5

\* the unit of the scenario: one history entry, with confidence 1
OneEntryOfConfidence1(st) ==
  /\ st.lastStudied # NoDate
  /\ Len(st.history) = 1
  /\ st.history[1].confidence = 1
  /\ st.history[1].date = st.lastStudied

\* C16 (as claimed): for a unit whose history is one entry of date D and
\* confidence 1, with baseCadence [1, 3, 7] and any confidenceFactors.low, the
\* review is due on D + round(1 * confidenceFactors.low)
C16_DueAfterRoundedLow ==
  ( lastCall.settings.autoReview
    /\ lastCall.settings.baseCadence = <<1, 3, 7>> ) =>
    \A i \in DOMAIN GivenUnits :
      OneEntryOfConfidence1(GivenUnits[i].st) =>
        \A k \in ReviewsOfUnit(GivenUnits[i]) :
          GeneratedReviews[k].reviewDateStr
            = GivenUnits[i].st.history[1].date
                + Rounded(1 * lastCall.settings.confidenceFactors.low)

\* C16 (amended): the review of that unit is due on
\* D + max(1, round(1 * confidenceFactors.low)), one day after D when
\* confidenceFactors.low is below 0.5, and is generated when that date is not
\* before today
C16_DueAfterRoundedLowAtLeast1 ==
  ( lastCall.settings.autoReview
    /\ lastCall.settings.baseCadence = <<1, 3, 7>> ) =>
    \A i \in DOMAIN GivenUnits :
      LET st == GivenUnits[i].st
          due == st.history[1].date
                   + Max(1, Rounded(1 * lastCall.settings.confidenceFactors.low))
      IN  OneEntryOfConfidence1(st) =>
            /\ \A k \in ReviewsOfUnit(GivenUnits[i]) :
                 GeneratedReviews[k].reviewDateStr = due
            /\ due >= lastCall.today
                 => Cardinality(ReviewsOfUnit(GivenUnits[i])) = 1

\* the unit of the scenario under confidenceFactors.low = 0.4: its review is
\* generated, for the day after D
C16_Witness ==
  /\ lastCall.settings.baseCadence = <<1, 3, 7>>
  /\ lastCall.settings.confidenceFactors.low = 4
  /\ \E i \in DOMAIN GivenUnits :
       /\ OneEntryOfConfidence1(GivenUnits[i].st)
       /\ \E k \in ReviewsOfUnit(GivenUnits[i]) :
            GeneratedReviews[k].reviewDateStr
              = GivenUnits[i].st.history[1].date + 1

\* the places of the returned map that hold a review task of the unit c
ReviewPlacesOfUnit(c) ==
  {p \in TaskPlaces(Returned) :
     /\ IsReview(TaskAt(Returned, p))
     /\ TaskAt(Returned, p).disciplineId = c.discipline.id
     /\ TaskAt(Returned, p).topicId = c.topic.id
     /\ TaskAt(Returned, p).subtopicId = c.st.id}

\* C17: a unit whose history has more entries than baseCadence has intervals
\* gets no review task from createReviewTasks and has no review task in the
\* returned map; with an empty baseCadence there is no review task at all
C17_CadenceExhausted ==
  /\ \A i \in DOMAIN GivenUnits :
       Len(GivenUnits[i].st.history) > Len(lastCall.settings.baseCadence)
         => /\ ReviewsOfUnit(GivenUnits[i]) = {}
            /\ ReviewPlacesOfUnit(GivenUnits[i]) = {}
  /\ lastCall.settings.baseCadence = << >>
       => /\ GeneratedReviews = << >>
          /\ \A p \in TaskPlaces(Returned) : ~IsReview(TaskAt(Returned, p))

\* a call with a unit completed more often than the cadence, which is not
\* empty, has intervals
C17_Witness ==
  /\ lastCall.settings.autoReview
  /\ Len(lastCall.settings.baseCadence) >= 1
  /\ DOMAIN Returned # {}
  /\ \E i \in DOMAIN GivenUnits :
       /\ GivenUnits[i].st.lastStudied # NoDate
       /\ Len(GivenUnits[i].st.history) > Len(lastCall.settings.baseCadence)
       /\ ReviewPlacesOfUnit(GivenUnits[i]) = {}

\* C18: createReviewTasks emits a review only for today or later: every
\* generated review and every review task of the returned map is due today or
\* later, and a unit whose due date is before today has no review task
C18_NoPastReview ==
  /\ \A k \in DOMAIN GeneratedReviews :
       GeneratedReviews[k].reviewDateStr >= lastCall.today
  /\ \A p \in TaskPlaces(Returned) :
       IsReview(TaskAt(Returned, p)) =>
         p[1] >= lastCall.today
           /\ TaskAt(Returned, p).reviewDateStr >= lastCall.today
  /\ lastCall.settings.autoReview =>
       \A i \in DOMAIN GivenUnits :
         LET c == GivenUnits[i]
         IN  ( /\ c.st.lastStudied # NoDate
               /\ 1 <= Len(c.st.history)
               /\ Len(c.st.history) <= Len(lastCall.settings.baseCadence)
               /\ ClaimedDue(c.st, lastCall.settings) < lastCall.today )
             => /\ ReviewsOfUnit(c) = {}
                /\ ReviewPlacesOfUnit(c) = {}

\* a call with a unit whose review was due before today
C18_Witness ==
  /\ lastCall.settings.autoReview
  /\ DOMAIN Returned # {}
  /\ \E i \in DOMAIN GivenUnits :
       LET c == GivenUnits[i]
       IN  /\ c.st.lastStudied # NoDate
           /\ 1 <= Len(c.st.history)
           /\ Len(c.st.history) <= Len(lastCall.settings.baseCadence)
           /\ ClaimedDue(c.st, lastCall.settings) < lastCall.today
           /\ ReviewsOfUnit(c) = {}

\* ------------------------------------------ claims of the study days
\* the weekdays of the claim, 0 = Sunday .. 6 = Saturday
ClaimedStudyDays(n) ==
  CASE n = 1 -> {1}
    [] n = 2 -> {1, 3}
    [] n = 3 -> {1, 3, 5}
    [] n = 4 -> {1, 2, 4, 5}
    [] n = 5 -> {1, 2, 3, 4, 5}
    [] n = 6 -> {1, 2, 3, 4, 5, 6}
    [] n = 7 -> {0, 1, 2, 3, 4, 5, 6}

\* the weekdays the predicate holds for, taken on the week 2025-11-02 ..
\* 2025-11-08 (dates 0 .. 6, a Sunday to a Saturday)
StudyWeekdays(settings) == {w \in 0..6 : isStudyDay(w, settings)}

\* C19: for studyDaysPerWeek = n in 1..7 the study days are exactly: 1
\* Monday; 2 Monday, Wednesday; 3 Monday, Wednesday, Friday; 4 Monday,
\* Tuesday, Thursday, Friday; 5 Monday to Friday; 6 Monday to Saturday; 7
\* every day; so n weekdays a week, and the days of a returned map that are
\* not rest days are the days of those weekdays
C19_StudyDays ==
  Given.studyDaysPerWeek \in 1..7 =>
    /\ StudyWeekdays(Given) = ClaimedStudyDays(Given.studyDaysPerWeek)
    /\ Cardinality(StudyWeekdays(Given)) = Given.studyDaysPerWeek
    /\ \A d \in DOMAIN Returned :
         ~Returned[d].isRestDay
           <=> (d % 7) \in ClaimedStudyDays(Given.studyDaysPerWeek)

\* a map made for four study days a week: its Tuesdays and Thursdays are
\* study days, its Wednesdays are not
C19_Witness ==
  /\ Given.studyDaysPerWeek = 4
  /\ \E d, e, f \in DOMAIN Returned :
       /\ d % 7 = 2 /\ ~Returned[d].isRestDay
       /\ e % 7 = 3 /\ Returned[e].isRestDay
       /\ f % 7 = 4 /\ ~Returned[f].isRestDay

\* C20: for every studyDaysPerWeek outside 1..7 the predicate is false on all
\* seven weekdays, so every day of a returned map is a rest day and the map
\* has no task
C20_FailsClosed ==
  Given.studyDaysPerWeek \notin 1..7 =>
    /\ StudyWeekdays(Given) = {}
    /\ \A d \in DOMAIN Returned : Returned[d].isRestDay
    /\ TaskPlaces(Returned) = {}

\* a map made for studyDaysPerWeek = 8 that holds a task
C20_Witness ==
  /\ Given.studyDaysPerWeek = 8
  /\ TaskPlaces(Returned) # {}

\* ------------------------------------------- further claims of the scheduler
\* C21: reorganizeAgenda has no error outcome: it returns an empty map for an
\* empty disciplines list, and a full map of 90 days without review tasks for
\* an empty baseCadence
C21_NoErrorOutcome ==
  /\ lastCall.disciplines = << >> => DOMAIN Returned = {}
  /\ ( lastCall.disciplines # << >> /\ lastCall.settings.baseCadence = << >> )
       => /\ Cardinality(DOMAIN Returned) = 90
          /\ \A p \in TaskPlaces(Returned) : ~IsReview(TaskAt(Returned, p))

\* a call with automatic reviews, an empty cadence and a unit that has been
\* studied: 90 days come back, with study tasks
C21_Witness ==
  /\ lastCall.settings.autoReview
  /\ lastCall.settings.baseCadence = << >>
  /\ \E i \in DOMAIN GivenUnits : GivenUnits[i].st.history # << >>
  /\ Cardinality(DOMAIN Returned) = 90
  /\ TaskPlaces(Returned) # {}

\* ------------------------------------------------ claims of the ranking
\* the units the latest call ranked, best first, each with its score
Ranking == lastCall.ranking

Unstudied(c) == c.st.lastStudied = NoDate

\* a and b are units of one discipline that differ in lastStudied (and in the
\* history that comes with it) only: a unstudied, b studied
Twins(a, b) ==
  /\ a.discipline = b.discipline
  /\ Unstudied(a) /\ ~Unstudied(b)
  /\ [a.st EXCEPT !.history = << >>]
       = [b.st EXCEPT !.history = << >>, !.lastStudied = NoDate]

StudiedInLast7Days(c) ==
  getDaysBetween(c.st.lastStudied, lastCall.today) <= 7

\* C22: of two units of one discipline that are identical except that one has
\* lastStudied unset and the other was last studied at most 7 days before
\* today, the unstudied one has the strictly higher score, whatever the date
\* of the run (before the first exam, between the exams, after the second).
C22_UnstudiedAboveRecentTwin ==
  \A i, j \in DOMAIN Ranking :
    ( Twins(Ranking[i], Ranking[j]) /\ StudiedInLast7Days(Ranking[j]) )
      => /\ Ranking[i].priority > Ranking[j].priority
         /\ Ranking[i].priority
              = calculateSubtopicPriority(Ranking[i].st, Ranking[i].discipline,
                                          lastCall.today)
         /\ Ranking[j].priority
              = calculateSubtopicPriority(Ranking[j].st, Ranking[j].discipline,
                                          lastCall.today)

\* a run between the two exams ranked a unit of a first-exam discipline, its
\* score cut to a hundredth, and its twin studied in the last three days
C22_Witness ==
  /\ lastCall.today >= ENEM_DATE_1 /\ lastCall.today < ENEM_DATE_2
  /\ \E i, j \in DOMAIN Ranking :
       /\ Twins(Ranking[i], Ranking[j])
       /\ Ranking[i].discipline.id \in DISCIPLINES_GROUP_1
       /\ getDaysBetween(Ranking[j].st.lastStudied, lastCall.today) <= 3
       /\ Ranking[i].priority > Ranking[j].priority

\* C23 (as stated): in the ranking of one run every unit with lastStudied
\* unset scores higher than every unit with lastStudied set, whatever the
\* disciplines, the difficulties, incidences and confidences and the date.
C23_UnstudiedAboveStudied ==
  \A i, j \in DOMAIN Ranking :
    ( Unstudied(Ranking[i]) /\ ~Unstudied(Ranking[j]) )
      => Ranking[i].priority > Ranking[j].priority

\* C23 (amended): in the ranking of one run every unit with lastStudied unset
\* scores higher than every unit of the same discipline with lastStudied set,
\* whatever their difficulties, incidences and confidences and the date.
C23_UnstudiedAboveStudiedOfDiscipline ==
  \A i, j \in DOMAIN Ranking :
    ( /\ Unstudied(Ranking[i]) /\ ~Unstudied(Ranking[j])
      /\ Ranking[i].discipline.id = Ranking[j].discipline.id )
      => Ranking[i].priority > Ranking[j].priority

\* a run ranked an unstudied unit above a harder unit of its discipline, one
\* studied with the lowest confidence more than 90 days before
C23_Witness ==
  \E i, j \in DOMAIN Ranking :
    /\ Unstudied(Ranking[i]) /\ ~Unstudied(Ranking[j])
    /\ Ranking[i].discipline.id = Ranking[j].discipline.id
    /\ Ranking[j].st.difficulty > Ranking[i].st.difficulty
    /\ Ranking[j].st.confidence = 1
    /\ getDaysBetween(Ranking[j].st.lastStudied, lastCall.today) > 90
    /\ i < j

\* ---------------------------------------------- claims of the greedy fill
\* the three ids by which a task, or a candidate, names its unit
UnitOfTask(t) == <<t.disciplineId, t.topicId, t.subtopicId>>
UnitOfCandidate(c) == <<c.discipline.id, c.topic.id, c.st.id>>

\* the units of the study tasks of the day d of the returned map, in order
StudyUnitsOn(d) ==
  LET studies == SelectSeq(Returned[d].tasks, IsStudy)
  IN  [k \in DOMAIN studies |-> UnitOfTask(studies[k])]

ReviewsOn(d) == SelectSeq(Returned[d].tasks, IsReview)

\* the fill of one day that goes back to the head of the remaining candidates
\* after each placement; r = [placed, cands]
RECURSIVE RestartFillDay(_, _, _, _, _)
RestartFillDay(r, timeSpentToday, disciplineCountToday, k, settings) ==
  IF ~(timeSpentToday < settings.dailyStudyMinutes /\ k <= Len(r.cands))
    THEN r
  ELSE IF /\ timeSpentToday + 45 <= settings.dailyStudyMinutes
          /\ CountOf(disciplineCountToday, r.cands[k].discipline.id)
               < settings.maxTasksPerDisciplinePerDay
    THEN RestartFillDay(
           [placed |-> Append(r.placed, UnitOfCandidate(r.cands[k])),
            cands |-> SubSeq(r.cands, 1, k - 1)
                        \o SubSeq(r.cands, k + 1, Len(r.cands))],
           timeSpentToday + 45,
           Increment(disciplineCountToday, r.cands[k].discipline.id),
           1, settings)
  ELSE RestartFillDay(r, timeSpentToday, disciplineCountToday, k + 1,
                      settings)

\* that fill over the days lo .. hi of the horizon, on top of the reviews the
\* returned map holds; h = [days, cands], days the units placed on each date
RECURSIVE RestartFill(_, _, _)
RestartFill(h, lo, hi) ==
  IF lo > hi THEN h
  ELSE IF lo < hi
    THEN CHOOSE x \in { RestartFill(half, (lo + hi) \div 2 + 1, hi) :
                          half \in {RestartFill(h, lo, (lo + hi) \div 2)} } :
           TRUE
  ELSE LET d == addDays(lastCall.today, lo)
       IN  IF Returned[d].isRestDay
             THEN [h EXCEPT !.days = [x \in DOMAIN h.days \cup {d} |->
                                        IF x = d THEN << >> ELSE h.days[x]]]
           ELSE CHOOSE x \in
                  { [days |-> [y \in DOMAIN h.days \cup {d} |->
                                 IF y = d THEN r.placed ELSE h.days[y]],
                     cands |-> r.cands] :
                      r \in { RestartFillDay(
                                [placed |-> << >>, cands |-> h.cands],
                                SumDuration(ReviewsOn(d)),
                                CountDisciplines(ReviewsOn(d), << >>),
                                1, lastCall.settings) } } :
                  TRUE

\* C24: the fill of reorganizeAgenda, which goes on at the same index of the
\* shortened candidate list after a placement, places on every day the same
\* units in the same order as a fill that goes back to the head of the
\* remaining candidates after each placement.
C24_SameAsRestartFill ==
  Returned # << >> =>
    \E h \in { RestartFill([days |-> << >>, cands |-> Ranking], 0,
                            planningHorizon - 1) } :
      /\ DOMAIN h.days = DOMAIN Returned
      /\ \A d \in DOMAIN Returned : StudyUnitsOn(d) = h.days[d]

\* the rank of a unit among the candidates of the run, 0 if it is not one
RankOf(unit) ==
  IF \E i \in DOMAIN Ranking : UnitOfCandidate(Ranking[i]) = unit
    THEN CHOOSE i \in DOMAIN Ranking : UnitOfCandidate(Ranking[i]) = unit
    ELSE 0

\* the candidate of rank i has a study task on the day d of the returned map
StudiedOn(i, d) ==
  \E k \in DOMAIN StudyUnitsOn(d) :
    StudyUnitsOn(d)[k] = UnitOfCandidate(Ranking[i])

\* the candidate of rank i was still in the pool at the end of day d
LeftAfter(i, d) ==
  \A e \in DOMAIN Returned : StudiedOn(i, e) => e > d

\* on one day a candidate was passed over, a lower-ranked one was placed, and
\* the scan went on to place another one after it
C24_Witness ==
  \E d \in DOMAIN Returned :
    \E p, q \in DOMAIN StudyUnitsOn(d) :
      /\ p < q
      /\ \E i \in DOMAIN Ranking :
           /\ i < RankOf(StudyUnitsOn(d)[p])
           /\ LeftAfter(i, d)

\* the place of a candidate in the flatten order of the disciplines given
FlattenIndexOf(c) ==
  CHOOSE i \in DOMAIN GivenUnits :
    /\ GivenUnits[i].discipline.id = c.discipline.id
    /\ GivenUnits[i].topic.id = c.topic.id
    /\ GivenUnits[i].st.id = c.st.id

ScoreOf(c) == calculateSubtopicPriority(c.st, c.discipline, lastCall.today)

\* a is ranked before b: a higher score, or the same score and an earlier
\* place in flatten order
RankedBefore(a, b) ==
  \/ ScoreOf(a) > ScoreOf(b)
  \/ ScoreOf(a) = ScoreOf(b) /\ FlattenIndexOf(a) < FlattenIndexOf(b)

\* the number of tasks of the discipline of the candidate a that the day d
\* held when a was scanned: the day's reviews and the study tasks of the
\* candidates ranked before a
CountWhenScanned(a, d) ==
  Cardinality({k \in DOMAIN Returned[d].tasks :
    /\ Returned[d].tasks[k].disciplineId = a.discipline.id
    /\ \/ IsReview(Returned[d].tasks[k])
       \/ \E i \in DOMAIN Ranking :
            /\ UnitOfCandidate(Ranking[i]) = UnitOfTask(Returned[d].tasks[k])
            /\ RankedBefore(Ranking[i], a)})

\* the places of the returned map that hold a study task
StudyPlaces == {p \in TaskPlaces(Returned) : IsStudy(TaskAt(Returned, p))}

\* C25: the fill respects the priority order: for two study candidates a and
\* b of one run, a ranked before b, if b is placed on day d and a is placed on
\* a later day or not at all, then on day d the number of tasks of a's
\* discipline had reached maxTasksPerDisciplinePerDay when a was scanned.
C25_PriorityOrder ==
  \E places \in {StudyPlaces} :
    \A pb \in places : \A i \in DOMAIN Ranking :
      ( /\ RankedBefore(Ranking[i], Ranking[RankOf(UnitOfTask(TaskAt(Returned, pb)))])
        /\ \A pa \in places :
             UnitOfTask(TaskAt(Returned, pa)) = UnitOfCandidate(Ranking[i])
               => pa[1] > pb[1] )
        => CountWhenScanned(Ranking[i], pb[1])
             >= lastCall.settings.maxTasksPerDisciplinePerDay

\* a candidate was passed over on the first day for a lower-ranked one of
\* another discipline, its own discipline being at the cap, and placed later
C25_Witness ==
  \E places \in {StudyPlaces} :
    \E pa, pb \in places :
      /\ pb[1] = lastCall.today /\ pa[1] > lastCall.today
      /\ TaskAt(Returned, pa).disciplineId # TaskAt(Returned, pb).disciplineId
      /\ RankedBefore(Ranking[RankOf(UnitOfTask(TaskAt(Returned, pa)))],
                      Ranking[RankOf(UnitOfTask(TaskAt(Returned, pb)))])
      /\ CountWhenScanned(Ranking[RankOf(UnitOfTask(TaskAt(Returned, pa)))],
                          lastCall.today)
           = lastCall.settings.maxTasksPerDisciplinePerDay

\* ------------------------------------- further claims of the completion
\* lastStudied is set exactly when the history is not empty, and then it is
\* the date of the last entry, and confidence is that entry's confidence
HistoryConsistent(st) ==
  /\ st.lastStudied # NoDate <=> st.history # << >>
  /\ st.history # << >> =>
       /\ st.lastStudied = st.history[Len(st.history)].date
       /\ st.confidence = st.history[Len(st.history)].confidence

\* the step confirms a completion of the unit at pos
ConfirmsCompletionOf(pos) ==
  /\ \E confidence \in Confidences, notes \in Notes :
       handleConfirmCompleteTask(confidence, notes)
  /\ NamedBy(state.disciplines, pos, taskToComplete)

\* C26: starting from units with empty history and lastStudied unset, after
\* any sequence of completions, with or without auto-replan, every unit has
\* lastStudied set exactly when its history is not empty, then equal to the
\* date of the last entry, with confidence equal to that entry's confidence;
\* and its history has one entry for each completion confirmed for it.
C26_HistoryConsistent ==
  [][/\ UnitPositions(state'.disciplines) = UnitPositions(state.disciplines)
     /\ \A pos \in UnitPositions(state.disciplines) :
          /\ HistoryConsistent(UnitAt(state.disciplines, pos))
          /\ HistoryConsistent(UnitAt(state'.disciplines, pos))
          /\ Len(UnitAt(state'.disciplines, pos).history)
               = Len(UnitAt(state.disciplines, pos).history)
                   + (IF ConfirmsCompletionOf(pos) THEN 1 ELSE 0)]_vars

\* a unit was completed on two days in a row, and another unit never
C26_Witness ==
  \E pos, other \in UnitPositions(state.disciplines) :
    LET st == UnitAt(state.disciplines, pos)
    IN  /\ Len(st.history) = 2
        /\ st.history[1].date < st.history[2].date
        /\ st.lastStudied = st.history[2].date
        /\ UnitAt(state.disciplines, other).history = << >>
        /\ UnitAt(state.disciplines, other).lastStudied = NoDate

\* --------------------------------------- claims of the unplaced reviews
\* the places of the returned map that hold a task of the unit of r
PlacesOfUnit(r) ==
  {p \in TaskPlaces(Returned) : SameUnit(TaskAt(Returned, p), r)}

\* C27: a unit for which a review task was generated and could not be placed
\* (its due date is a rest day, lacks 25 free minutes, holds maxReviewsPerDay
\* reviews already, or lies beyond the horizon) has no task of any type in
\* the returned map: the generated reviews, placed or not, take their units
\* out of the study candidates.
C27_UnplacedReviewNoTask ==
  \A k \in DOMAIN GeneratedReviews :
    ReviewPlaces(Returned, GeneratedReviews[k]) = {}
      => PlacesOfUnit(GeneratedReviews[k]) = {}

\* a review was generated with a rest day as its due date: its unit has no
\* task, while other units have study tasks
C27_Witness ==
  /\ \E k \in DOMAIN GeneratedReviews :
       /\ GeneratedReviews[k].reviewDateStr \in DOMAIN Returned
       /\ Returned[GeneratedReviews[k].reviewDateStr].isRestDay
       /\ PlacesOfUnit(GeneratedReviews[k]) = {}
  /\ \E p \in TaskPlaces(Returned) : IsStudy(TaskAt(Returned, p))

\* the places of the application's plan map that hold a task of the unit at
\* pos of the application's disciplines
PlacesInPlansOf(pos) ==
  {p \in TaskPlaces(Plans) : NamedBy(state.disciplines, pos, TaskAt(Plans, p))}

\* the unit at pos was completed today and has a cadence interval left
CompletedTodayWithinCadence(pos) ==
  /\ UnitAt(state.disciplines, pos).lastStudied = today
  /\ Len(UnitAt(state.disciplines, pos).history)
       <= Len(state.settings.baseCadence)

\* C28: once a unit is completed today, with autoReplanOnComplete and
\* autoReview both true and a history no longer than baseCadence, the
\* regenerated plan holds no task of the unit dated today: the only task it
\* can hold for the unit is one review, dated at least one day after today.
C28_NoTaskTodayAfterCompletion ==
  ( state.settings.autoReplanOnComplete /\ state.settings.autoReview ) =>
    \A pos \in UnitPositions(state.disciplines) :
      CompletedTodayWithinCadence(pos) =>
        /\ Cardinality(PlacesInPlansOf(pos)) <= 1
        /\ \A p \in PlacesInPlansOf(pos) :
             /\ IsReview(TaskAt(Plans, p))
             /\ p[1] >= today + 1

\* a unit was completed today and the regenerated plan, the application's
\* plan now, holds its review tomorrow and study tasks of other units today
C28_Witness ==
  /\ state.settings.autoReplanOnComplete /\ state.settings.autoReview
  /\ Plans = lastCall.result /\ lastCall.disciplines = state.disciplines
  /\ \E pos \in UnitPositions(state.disciplines) :
       /\ CompletedTodayWithinCadence(pos)
       /\ \E p \in PlacesInPlansOf(pos) :
            IsReview(TaskAt(Plans, p)) /\ p[1] = today + 1
  /\ today \in DOMAIN Plans /\ Plans[today].tasks # << >>

\* ------------------------------- claims of the units without a review
\* the unit c is among the study candidates the run ranked
AmongCandidates(c) ==
  \E j \in DOMAIN Ranking : UnitOfCandidate(Ranking[j]) = UnitOfCandidate(c)

\* the unit c is studied and the run generated no review for it
StudiedWithoutReview(c) ==
  c.st.lastStudied # NoDate /\ ReviewsOfUnit(c) = {}

\* C29: a studied unit for which the run generates no review (autoReview is
\* false, its history is longer than baseCadence, or its review would be due
\* before today) is put back among the study candidates, and the tasks it
\* gets are study tasks of 45 minutes.
C29_BackAmongCandidates ==
  \A i \in DOMAIN GivenUnits :
    StudiedWithoutReview(GivenUnits[i]) =>
      /\ AmongCandidates(GivenUnits[i])
      /\ \A p \in TaskPlaces(Returned) :
           UnitOfTask(TaskAt(Returned, p)) = UnitOfCandidate(GivenUnits[i])
             => /\ IsStudy(TaskAt(Returned, p))
                /\ TaskAt(Returned, p).duration = 45

\* a run on a day with room for study tasks left a studied unit without a
\* review out of the candidates and without a task: a unit of another topic
\* with the same id has a review
C29_Witness ==
  \E i, j \in DOMAIN GivenUnits :
    /\ StudiedWithoutReview(GivenUnits[i])
    /\ ~AmongCandidates(GivenUnits[i])
    /\ \A p \in TaskPlaces(Returned) :
         UnitOfTask(TaskAt(Returned, p)) # UnitOfCandidate(GivenUnits[i])
    /\ GivenUnits[j].st.id = GivenUnits[i].st.id
    /\ GivenUnits[j].topic.id # GivenUnits[i].topic.id
    /\ ReviewsOfUnit(GivenUnits[j]) # {}
    /\ \E p \in TaskPlaces(Returned) : IsStudy(TaskAt(Returned, p))

\* ------------------------------------------ claims of the fresh tasks
\* a task as the scheduler makes it: not completed, without the fields a
\* completion adds, 25 minutes for a review and 45 for a study
FreshTask(t) ==
  /\ t.completed = FALSE
  /\ DOMAIN t \cap {"completionDate", "confidence", "notes"} = {}
  /\ t.type \in {"review", "study"}
  /\ t.duration = (IF t.type = "review" THEN 25 ELSE 45)

\* C30: every task of a map returned by reorganizeAgenda has completed =
\* false and no completionDate, confidence or notes, and lasts 25 minutes if
\* it is a review and 45 if it is a study; hence, with autoReplanOnComplete
\* true, no task of the application's plan map is marked completed after a
\* completion.
C30_FreshTasks ==
  /\ \A p \in TaskPlaces(Returned) : FreshTask(TaskAt(Returned, p))
  /\ state.settings.autoReplanOnComplete =>
       \A p \in TaskPlaces(Plans) : ~TaskAt(Plans, p).completed

\* the plan a completion with auto-replan left: the unit completed today has
\* its review in it, next to study tasks, and no task is marked
C30_Witness ==
  /\ state.settings.autoReplanOnComplete
  /\ Plans = lastCall.result
  /\ \E pos \in UnitPositions(state.disciplines) :
       /\ UnitAt(state.disciplines, pos).lastStudied = today
       /\ \E p \in PlacesInPlansOf(pos) : TaskAt(Plans, p).duration = 25
  /\ \E p \in TaskPlaces(Plans) : TaskAt(Plans, p).duration = 45
  /\ \A p \in TaskPlaces(Plans) : FreshTask(TaskAt(Plans, p))

====
